---- MODULE Spec2Model ----
(***************************************************************************)
(* Model of the sheep-weight backend (src/backend.py): the process-wide    *)
(* state held by the module globals, load_model, the /predict handler and  *)
(* the pure helpers they call.                                             *)
(*                                                                         *)
(* Strings that the code inspects with startswith / replace / in are       *)
(* sequences of tokens, so that "cnn." is the two tokens <<"cnn", ".">>    *)
(* and str.replace is computed by scanning, as Python does.  A dict is the *)
(* sequence of its entries in insertion order, with distinct keys.  An     *)
(* optional value (None or a value) is a sequence of length 0 or 1.        *)
(***************************************************************************)
EXTENDS Integers, Sequences, FiniteSets, TLC

VARIABLES
    model,          \* backend.py:31  <<>> (None) or <<network>>
    model_loaded,   \* backend.py:32
    output_scaler,  \* backend.py:33  "None" or the scaler object held
    target_names,   \* backend.py:34
    startup,        \* lifespan has not yet run load_model
    last_ret,       \* history: <<>> or <<value returned by the last load_model>>
    last_fresh,     \* history: the globals a fresh process holds after the last checkpoint
    last_nsd,       \* history: new_state_dict of the last load_model that reached the bind
    last_prebind,   \* history: the network of that load just before load_state_dict
    bind_raised,    \* history: load_state_dict of the last load raised
    load_calls,     \* history: calls of load_model so far: 0, 1, or 2 for "more"
    reqs,           \* the /predict requests in progress or answered, by slot
    sd_in,          \* key remapper alone: the mapping it is given
    remapped,       \* key remapper alone: <<>> or <<new_state_dict>>
    arg,            \* a pure helper alone: the argument it is given
    result,         \* a pure helper alone: <<>> or <<value it returned>>
    current_user,   \* main.py:177  [logged_in, data]; data is <<>> (None) or <<user id>>
    user_stats,     \* main.py:178  its total_scans
    scan_history,   \* main.py:179  the rows the client holds in memory
    users_table,    \* main.py:20   table users: the ids of the accounts
    scans_table,    \* main.py:31   table scan_history: its rows, oldest first
    analyze_view,   \* main.py:559  "gate" or "picker"
    auth_view,      \* main.py:743  "form" or "profile"
    is_login_mode,  \* main.py:432
    tab,            \* main.py:991  the view that is visible, 0..3
    picker_open,    \* the file dialog opened by pick_files is on screen
    pick            \* the on_file_picked handler in progress: where it is, the id it holds

globals == <<model, model_loaded, output_scaler, target_names>>
history == <<last_ret, last_fresh, last_nsd, last_prebind, bind_raised, load_calls>>
remapVars == <<sd_in, remapped>>
helperVars == <<arg, result>>
serverVars == <<globals, startup, history, reqs, remapVars, helperVars>>
clientVars == <<current_user, user_stats, scan_history, users_table, scans_table,
                analyze_view, auth_view, is_login_mode, tab, picker_open, pick>>
vars == <<serverVars, clientVars>>

\* ------------------------------------------------------------------ bounds
\* Largest number of entries of a mapping given to the key remapper alone.
MaxEntries == 2
\* Number of /predict requests that can be in progress at once.
MaxReqs == 2
\* Largest length of the target names and of the predictions given to the
\* name classifier alone.
MaxNames == 2
\* Largest number of rows of the scan_history table.
MaxScans == 2

\* ------------------------------------------------------- strings and dicts
\* str.startswith(p)
StartsWith(s, p) == Len(s) >= Len(p) /\ SubSeq(s, 1, Len(p)) = p

RECURSIVE StrRemove(_, _)
\* str.replace(p, ""): every non-overlapping occurrence of p, found by a
\* left-to-right scan, is removed; the result is not scanned again.
StrRemove(s, p) ==
    IF Len(s) < Len(p) THEN s
    ELSE IF SubSeq(s, 1, Len(p)) = p
         THEN StrRemove(SubSeq(s, Len(p) + 1, Len(s)), p)
         ELSE <<Head(s)>> \o StrRemove(Tail(s), p)

\* The keys of a dict, as a set.
DictKeys(d) == {d[i].k : i \in DOMAIN d}

\* d[k] for a key the dict holds.
DictGet(d, k) == d[CHOOSE i \in DOMAIN d : d[i].k = k].v

\* d.setdefault(k, v): an existing key keeps its value.
DictSetDefault(d, k, v) ==
    IF k \in DictKeys(d) THEN d ELSE Append(d, [k |-> k, v |-> v])

\* d[k] = v: an existing key keeps its place, a new key goes last.
DictSet(d, k, v) ==
    IF k \in DictKeys(d)
    THEN [i \in DOMAIN d |-> IF d[i].k = k THEN [k |-> k, v |-> v] ELSE d[i]]
    ELSE Append(d, [k |-> k, v |-> v])

\* Two dicts are equal (==) when they hold the same entries, in any order.
DictItems(d) == {d[i] : i \in DOMAIN d}

\* --------------------------------------------------------- key remapping
CNN_PREFIX == <<"cnn", ".">>
TAB_MLP == <<"tab_mlp">>
FINAL_HEAD == <<"final_head">>

\* The loop body with the prefix test written as a containment test and the
\* prefix cut off by its length.
RemapEntryContains(new_state_dict, key, value) ==
    IF \E i \in 1..Len(key) : StartsWith(SubSeq(key, i, Len(key)), CNN_PREFIX)
    THEN DictSet(new_state_dict, SubSeq(key, Len(CNN_PREFIX) + 1, Len(key)), value)
    ELSE IF ~StartsWith(key, TAB_MLP) /\ ~StartsWith(key, FINAL_HEAD)
         THEN DictSet(new_state_dict, key, value)
         ELSE new_state_dict

\* One iteration of the loop at backend.py:79-86.
RemapEntry(new_state_dict, key, value) ==
    IF StartsWith(key, CNN_PREFIX)
    THEN DictSet(new_state_dict, StrRemove(key, CNN_PREFIX), value)
    ELSE IF ~StartsWith(key, TAB_MLP) /\ ~StartsWith(key, FINAL_HEAD)
         THEN DictSet(new_state_dict, key, value)
         ELSE new_state_dict

RECURSIVE RemapFrom(_, _)
RemapFrom(new_state_dict, state_dict) ==
    IF state_dict = <<>> THEN new_state_dict
    ELSE RemapFrom(RemapEntry(new_state_dict, Head(state_dict).k, Head(state_dict).v),
                   Tail(state_dict))

\* backend.py:78-86
RemapKeys(state_dict) == RemapFrom(<<>>, state_dict)

\* ------------------------------------------------------------ the network
CONV1_WEIGHT == <<"conv1", ".", "weight">>
FC_WEIGHT == <<"fc", ".", "weight">>
FC_BIAS == <<"fc", ".", "bias">>

\* The parameters of the reference architecture the model follows: one of
\* the backbone and the two of the final linear layer.
ParamNames == {CONV1_WEIGHT, FC_WEIGHT, FC_BIAS}

Tensor(shape, val) == [shape |-> shape, val |-> val]

\* models.resnet18(weights=None): freshly initialised, in training mode,
\* fc = Linear(512, 1000).
Resnet18 ==
    [training |-> TRUE,
     params |-> [p \in ParamNames |->
                   CASE p = CONV1_WEIGHT -> Tensor(<<64, 3, 7, 7>>, "init")
                     [] p = FC_WEIGHT -> Tensor(<<1000, 512>>, "init")
                     [] OTHER -> Tensor(<<1000>>, "init")]]

\* model.fc.in_features / out_features
InFeatures(m) == m.params[FC_WEIGHT].shape[2]
OutFeatures(m) == m.params[FC_WEIGHT].shape[1]

\* model.fc = nn.Linear(in_features, num_outputs)
SetFc(m, in_features, num_outputs) ==
    [m EXCEPT !.params =
        [p \in ParamNames |->
            CASE p = FC_WEIGHT -> Tensor(<<num_outputs, in_features>>, "init")
              [] p = FC_BIAS -> Tensor(<<num_outputs>>, "init")
              [] OTHER -> m.params[p]]]

\* A parameter of the network that the mapping names with another shape.
SizeMismatch(m, sd, p) == p \in DictKeys(sd) /\ DictGet(sd, p).shape # m.params[p].shape

\* A bind that assigns every named parameter whatever its shape.
LoadStateDictAnyShape(m, sd) ==
    [model |-> [m EXCEPT !.params =
                   [p \in ParamNames |->
                       IF p \in DictKeys(sd) THEN DictGet(sd, p) ELSE m.params[p]]],
     raised |-> FALSE]

\* model.load_state_dict(sd, strict=False): a parameter the mapping names
\* with the same shape is copied; missing and unexpected names are ignored;
\* a size mismatch is collected and raised once every parameter is done.
LoadStateDict(m, sd) ==
    [model |-> [m EXCEPT !.params =
                   [p \in ParamNames |->
                       IF p \in DictKeys(sd) /\ ~SizeMismatch(m, sd, p)
                       THEN Tensor(m.params[p].shape, DictGet(sd, p).val)
                       ELSE m.params[p]]],
     raised |-> \E p \in ParamNames : SizeMismatch(m, sd, p)]

\* model.eval()
Eval(m) == [m EXCEPT !.training = FALSE]

\* ------------------------------------------------------------ target names
WEIGHT_KG == <<"weight", "_", "kg">>
LEAN_KG == <<"lean", "_", "kg">>
FAT_KG == <<"fat", "_", "kg">>
CARCASS_TOTAL_KG == <<"carcass", "_", "total", "_", "kg">>

\* backend.py:34
DefaultTargetNames == << <<"weight">>, <<"lean">>, <<"fat">>, <<"bone">> >>

\* The head sized by the default count whatever the target names are.
NumOutputsFixed(tn) == 4

\* backend.py:90  len(target_names) if target_names else 4
NumOutputs(tn) == IF tn # <<>> THEN Len(tn) ELSE 4

\* ------------------------------------------------------------- checkpoints
\* A value stored where a parameter mapping is expected: a mapping (it has
\* .items()), or another object such as a non-empty list (it has not).
Mapping(items) == [ok |-> TRUE, items |-> items]
BadMapping == [ok |-> FALSE, items |-> <<>>]

\* bool(v) of such a value: an empty mapping is falsy.
MapTruthy(v) == ~v.ok \/ v.items # <<>>

\* A value of the container that is no tensor.
NonTensor == Tensor(<<>>, "object")

Entry(k, v) == [k |-> k, v |-> v]

\* A backbone weight under the "cnn." namespace.
BackboneDict == <<Entry(CNN_PREFIX \o CONV1_WEIGHT, Tensor(<<64, 3, 7, 7>>, "t1"))>>

\* Parameter mappings a checkpoint may carry: empty; BackboneDict; the same
\* weight under both names; a two-output head; a backbone weight of another
\* shape; only names of other branches and names the architecture does not
\* have; a four-output model with entries of all these kinds.
SampleDicts ==
    { <<>>,
      BackboneDict,
      <<Entry(CNN_PREFIX \o CONV1_WEIGHT, Tensor(<<64, 3, 7, 7>>, "t1")),
        Entry(CONV1_WEIGHT, Tensor(<<64, 3, 7, 7>>, "t2"))>>,
      <<Entry(CNN_PREFIX \o FC_WEIGHT, Tensor(<<2, 512>>, "t3")),
        Entry(CNN_PREFIX \o FC_BIAS, Tensor(<<2>>, "t4"))>>,
      <<Entry(CNN_PREFIX \o CONV1_WEIGHT, Tensor(<<32, 3, 3, 3>>, "t5"))>>,
      <<Entry(TAB_MLP \o <<".", "0", ".", "weight">>, Tensor(<<16, 8>>, "t6")),
        Entry(FINAL_HEAD \o <<".", "weight">>, Tensor(<<4, 528>>, "t7")),
        Entry(CNN_PREFIX \o <<"layer9", ".", "weight">>, Tensor(<<64>>, "t8"))>>,
      <<Entry(CNN_PREFIX \o CONV1_WEIGHT, Tensor(<<64, 3, 7, 7>>, "t1")),
        Entry(CNN_PREFIX \o FC_WEIGHT, Tensor(<<4, 512>>, "t9")),
        Entry(CNN_PREFIX \o FC_BIAS, Tensor(<<4>>, "t10")),
        Entry(CNN_PREFIX \o <<"layer9", ".", "weight">>, Tensor(<<64>>, "t8")),
        Entry(FINAL_HEAD \o <<".", "weight">>, Tensor(<<4, 528>>, "t7"))>> }

\* A mapping stored under 'model_state_dict', and parameters stored at the
\* top level of the container.
OtherDict == <<Entry(CONV1_WEIGHT, Tensor(<<64, 3, 7, 7>>, "m1"))>>
TopLevelDict == <<Entry(CNN_PREFIX \o CONV1_WEIGHT, Tensor(<<64, 3, 7, 7>>, "r1"))>>

\* The target_names lists a checkpoint may carry.
TargetLists ==
    { <<>>,
      <<WEIGHT_KG, CARCASS_TOTAL_KG>>,
      <<WEIGHT_KG, LEAN_KG, FAT_KG, CARCASS_TOTAL_KG>> }

\* What is not a container: no file, a file torch.load cannot read, a saved
\* module (it has state_dict()), any other object.
NoFile == [kind |-> "missing"]
Unreadable == [kind |-> "corrupt"]
OtherObject == [kind |-> "other"]
SavedModule(sd) == [kind |-> "module", params |-> sd]

\* The container checkpoints: each field is present (has_x) or not; a field
\* that is not present has a fixed value that is never read.  A scaler is
\* "okScaler" (its inverse_transform works), "badScaler" (its
\* inverse_transform raises) or "None" (Python's None).
Containers ==
    { c \in [kind : {"dict"},
             has_target_scaler : BOOLEAN, target_scaler : {"None", "badScaler"},
             has_scaler : BOOLEAN, scaler : {"okScaler"},
             has_target_names : BOOLEAN,
             target_names : TargetLists,
             has_state_dict : BOOLEAN,
             state_dict : {BadMapping} \cup {Mapping(d) : d \in SampleDicts},
             has_model_state_dict : BOOLEAN,
             model_state_dict : {Mapping(<<>>), Mapping(OtherDict)},
             rest : {<<>>, TopLevelDict}] :
        /\ (~c.has_target_scaler => c.target_scaler = "None")
        /\ (~c.has_target_names => c.target_names = <<>>)
        /\ (~c.has_state_dict => c.state_dict = Mapping(<<>>))
        /\ (~c.has_model_state_dict => c.model_state_dict = Mapping(<<>>))
        \* the sample: a scaler under 'target_scaler' that raises comes with
        \* one under 'scaler', a None under 'target_scaler' comes alone
        /\ (c.has_target_scaler => (c.has_scaler <=> c.target_scaler = "badScaler"))
        \* the sample: beside a mapping under 'model_state_dict' or top-level
        \* parameters, 'state_dict' is absent, empty or the first backbone sample
        /\ (c.has_model_state_dict \/ c.rest # <<>>
              => c.state_dict \in {Mapping(<<>>), Mapping(BackboneDict)}) }

Checkpoints ==
    {NoFile, Unreadable, OtherObject} \cup {SavedModule(d) : d \in SampleDicts}
        \cup Containers

\* checkpoint.items() of a container: its metadata fields, then the
\* parameters stored at its top level.
ContainerItems(c) ==
    (IF c.has_target_scaler THEN <<Entry(<<"target_scaler">>, NonTensor)>> ELSE <<>>)
    \o (IF c.has_scaler THEN <<Entry(<<"scaler">>, NonTensor)>> ELSE <<>>)
    \o (IF c.has_target_names THEN <<Entry(<<"target_names">>, NonTensor)>> ELSE <<>>)
    \o (IF c.has_state_dict THEN <<Entry(<<"state_dict">>, NonTensor)>> ELSE <<>>)
    \o (IF c.has_model_state_dict
        THEN <<Entry(<<"model_state_dict">>, NonTensor)>> ELSE <<>>)
    \o c.rest

\* The probe with 'model_state_dict' tried before 'state_dict'.
PickModelStateDictFirst(c) ==
    IF c.has_model_state_dict /\ MapTruthy(c.model_state_dict)
    THEN c.model_state_dict
    ELSE IF c.has_state_dict /\ MapTruthy(c.state_dict) THEN c.state_dict
         ELSE Mapping(ContainerItems(c))

\* backend.py:72  checkpoint.get('state_dict') or
\*                checkpoint.get('model_state_dict') or checkpoint
PickStateDict(c) ==
    IF c.has_state_dict /\ MapTruthy(c.state_dict) THEN c.state_dict
    ELSE IF c.has_model_state_dict /\ MapTruthy(c.model_state_dict)
         THEN c.model_state_dict
         ELSE Mapping(ContainerItems(c))

\* backend.py:62-74: the value state_dict holds for a checkpoint that is a
\* container or a saved module.
StateDictOf(ck) ==
    IF ck.kind = "dict" THEN PickStateDict(ck) ELSE Mapping(ck.params)

\* --------------------------------------------------------------- load_model
\* The four module globals as one value.
Globals(m, ml, os, tn) ==
    [model |-> m, model_loaded |-> ml, output_scaler |-> os, target_names |-> tn]

\* backend.py:31-34
InitialGlobals == Globals(<<>>, FALSE, "None", DefaultTargetNames)

\* What a call of load_model leaves: the globals, the value returned, and
\* (when the call got as far as load_state_dict) the mapping it bound, the
\* network it bound it to and whether load_state_dict raised.
LoadOutcome(g, ret, bound, nsd, prebind, raised) ==
    [g |-> g, ret |-> ret, bound |-> bound, nsd |-> nsd, prebind |-> prebind,
     raised |-> raised]

Failed(g) == LoadOutcome(g, FALSE, FALSE, <<>>, <<>>, FALSE)

\* backend.py:62-69: the metadata a container supplies replaces the globals;
\* what it does not supply is left as it was.
ExtractMetadata(g, c) ==
    [g EXCEPT
       !.output_scaler = IF c.has_target_scaler THEN c.target_scaler
                         ELSE IF c.has_scaler THEN c.scaler
                         ELSE @,
       !.target_names = IF c.has_target_names THEN c.target_names ELSE @]

\* The same steps without the try/except of backend.py:93-100: a bind that
\* raises reaches the handler of backend.py:107-111 and load_model returns
\* False, the network left resized and in training mode.
ResizeBindNoInnerTry(g, new_state_dict) ==
    LET m1 == g.model[1]
        m2 == SetFc(m1, InFeatures(m1), NumOutputs(g.target_names))
        b == LoadStateDict(m2, new_state_dict)
    IN  IF b.raised
        THEN LoadOutcome([g EXCEPT !.model = <<b.model>>],
                         FALSE, TRUE, new_state_dict, <<m2>>, TRUE)
        ELSE LoadOutcome([g EXCEPT !.model = <<Eval(b.model)>>,
                                   !.model_loaded = TRUE],
                         TRUE, TRUE, new_state_dict, <<m2>>, FALSE)

\* The same steps with the bind done before the head is replaced
\* (backend.py:93-100 ahead of backend.py:88-91): the fresh head overwrites
\* whatever was bound to fc.
BindThenResize(g, new_state_dict) ==
    LET m1 == g.model[1]
        b == LoadStateDict(m1, new_state_dict)
        m2 == SetFc(b.model, InFeatures(b.model), NumOutputs(g.target_names))
    IN  LoadOutcome([g EXCEPT !.model = <<Eval(m2)>>, !.model_loaded = TRUE],
                    TRUE, TRUE, new_state_dict, <<m1>>, b.raised)

\* backend.py:88-105: head resize, bind, eval, model_loaded = True.
ResizeBindEval(g, new_state_dict) ==
    LET m1 == g.model[1]
        m2 == SetFc(m1, InFeatures(m1), NumOutputs(g.target_names))
        b == LoadStateDict(m2, new_state_dict)
    IN  LoadOutcome([g EXCEPT !.model = <<Eval(b.model)>>, !.model_loaded = TRUE],
                    TRUE, TRUE, new_state_dict, <<m2>>, b.raised)

\* backend.py:76-105, given the value state_dict holds.
RemapAndBind(g, state_dict) ==
    IF ~state_dict.ok THEN Failed(g)                 \* .items() raises
    ELSE ResizeBindEval(g, RemapKeys(state_dict.items))

\* backend.py:47-111: load_model() run on globals g with checkpoint ck at
\* MODEL_PATH.
LoadModel(g, ck) ==
    IF ck.kind = "missing" THEN Failed(g)             \* backend.py:50-52
    ELSE IF ck.kind = "corrupt" THEN Failed(g)        \* torch.load raises
    ELSE LET g1 == [g EXCEPT !.model = <<Resnet18>>]  \* backend.py:59
         IN  CASE ck.kind = "dict" ->
                    RemapAndBind(ExtractMetadata(g1, ck), StateDictOf(ck))
               [] ck.kind = "module" -> RemapAndBind(g1, StateDictOf(ck))
               [] OTHER -> Failed(g1)                 \* no state_dict()

\* One call of load_model with checkpoint ck on disk.
LoadCall(ck) ==
    LET g == Globals(model, model_loaded, output_scaler, target_names)
        r == LoadModel(g, ck)
    IN  /\ model' = r.g.model
        /\ model_loaded' = r.g.model_loaded
        /\ output_scaler' = r.g.output_scaler
        /\ target_names' = r.g.target_names
        /\ last_ret' = <<r.ret>>
        /\ last_fresh' = <<LoadModel(InitialGlobals, ck).g>>
        /\ load_calls' = IF load_calls < 2 THEN load_calls + 1 ELSE 2
        /\ IF r.bound
           THEN /\ last_nsd' = <<r.nsd>>
                /\ last_prebind' = r.prebind
                /\ bind_raised' = r.raised
           ELSE /\ last_nsd' = <<>>
                /\ last_prebind' = <<>>
                /\ bind_raised' = FALSE

\* ---------------------------------------------------------------- inference
\* Quantities are whole hundredths of a kilogram; percentages are whole
\* tenths of a percent (the precision the response rounds to).

\* list(tensor) of a raw output: what the network returns for one image.
\* The sample: every output negative, and outputs rising with the index.
RawOutputs(n) == { [i \in 1..n |-> 0 - 320], [i \in 1..n |-> 3000 + 1000 * i] }

\* output_scaler.inverse_transform(raw)[0] of the scaler that works.
InverseTransform(raw) == [i \in DOMAIN raw |-> 2 * raw[i] + 1000]

\* pat in name
Contains(name, pat) ==
    \E i \in 1..(Len(name) - Len(pat) + 1) : SubSeq(name, i, i + Len(pat) - 1) = pat

\* str.lower(), token by token.
LowerToken(t) ==
    CASE t = "WEIGHT" -> "weight"
      [] t = "KG" -> "kg"
      [] t = "Carcass" -> "carcass"
      [] OTHER -> t
\* The name taken as it is spelled.
LowerAsSpelled(name) == name

Lower(name) == [i \in DOMAIN name |-> LowerToken(name[i])]

\* The second operand whatever the first is.
MaxSecond(a, b) == b

\* max(a, b)
Max(a, b) == IF a >= b THEN a ELSE b

EmptyResults == [live_weight |-> 0, lean_mass |-> 0, fat_mass |-> 0, carcass_weight |-> 0]

\* The loop body with a last branch that takes every other name as the
\* carcass.
ClassifyOneElseCarcass(results, i, name, predictions) ==
    IF i <= Len(predictions)
    THEN LET val == Max(0, predictions[i])
             name_clean == Lower(name)
         IN  IF Contains(name_clean, WEIGHT_KG) THEN [results EXCEPT !.live_weight = val]
             ELSE IF Contains(name_clean, LEAN_KG) THEN [results EXCEPT !.lean_mass = val]
             ELSE IF Contains(name_clean, FAT_KG) THEN [results EXCEPT !.fat_mass = val]
             ELSE [results EXCEPT !.carcass_weight = val]
    ELSE results

\* The loop body with each test made on the first word alone.
ClassifyOneByFirstWord(results, i, name, predictions) ==
    IF i <= Len(predictions)
    THEN LET val == Max(0, predictions[i])
             name_clean == Lower(name)
         IN  IF Contains(name_clean, <<"weight">>) THEN [results EXCEPT !.live_weight = val]
             ELSE IF Contains(name_clean, <<"lean">>) THEN [results EXCEPT !.lean_mass = val]
             ELSE IF Contains(name_clean, <<"fat">>) THEN [results EXCEPT !.fat_mass = val]
             ELSE IF Contains(name_clean, <<"carcass">>)
                  THEN [results EXCEPT !.carcass_weight = val]
             ELSE results
    ELSE results

\* backend.py:164-175: one iteration of the loop, i counted from 1.
ClassifyOne(results, i, name, predictions) ==
    IF i <= Len(predictions)
    THEN LET val == Max(0, predictions[i])
             name_clean == Lower(name)
         IN  IF Contains(name_clean, WEIGHT_KG) THEN [results EXCEPT !.live_weight = val]
             ELSE IF Contains(name_clean, LEAN_KG) THEN [results EXCEPT !.lean_mass = val]
             ELSE IF Contains(name_clean, FAT_KG) THEN [results EXCEPT !.fat_mass = val]
             ELSE IF Contains(name_clean, <<"carcass">>)
                  THEN [results EXCEPT !.carcass_weight = val]
             ELSE results
    ELSE results

RECURSIVE ClassifyFrom(_, _, _, _)
ClassifyFrom(results, i, names, predictions) ==
    IF i > Len(names) THEN results
    ELSE ClassifyFrom(ClassifyOne(results, i, names[i], predictions), i + 1, names,
                      predictions)

\* backend.py:159-177
Classify(names, predictions) == ClassifyFrom(EmptyResults, 1, names, predictions)

\* predict_metrics whose except branch leaves no predictions.
PredictMetricsNoFallback(g, raw) ==
    LET called == g.output_scaler # "None"
        failed == called /\ g.output_scaler = "badScaler"
        predictions == IF ~called THEN raw
                       ELSE IF failed THEN <<>> ELSE InverseTransform(raw)
    IN  [scaler_called |-> called,
         scaler_raised |-> failed,
         predictions |-> predictions,
         results |-> Classify(g.target_names, predictions)]

\* backend.py:146-177: predict_metrics on globals g once the network has
\* returned raw.
PredictMetrics(g, raw) ==
    LET called == g.output_scaler # "None"
        failed == called /\ g.output_scaler = "badScaler"
        predictions == IF called /\ ~failed THEN InverseTransform(raw) ELSE raw
    IN  [scaler_called |-> called,
         scaler_raised |-> failed,
         predictions |-> predictions,
         results |-> Classify(g.target_names, predictions)]

\* The bands with each threshold given to the band below it.
DetermineStatusInclusive(weight) ==
    IF weight <= 4000 THEN "Underweight"
    ELSE IF weight <= 4500 THEN "Low"
    ELSE IF weight <= 5500 THEN "Healthy"
    ELSE IF weight <= 6500 THEN "Good"
    ELSE "Excellent"

\* backend.py:179-184
DetermineStatus(weight) ==
    IF weight < 4000 THEN "Underweight"
    ELSE IF weight < 4500 THEN "Low"
    ELSE IF weight < 5500 THEN "Healthy"
    ELSE IF weight < 6500 THEN "Good"
    ELSE "Excellent"

\* round(x, 1) of the ratio a / b taken as a percentage, a >= 0, b > 0.
RoundPercent(a, b) == (2000 * a + b) \div (2 * b)

\* The composition without the test of backend.py:231: the remainder is
\* 100 - (lean + fat) even when lean and fat exceed the carcass.
CarcassDetailsNoOverflowTest(metrics) ==
    LET carcass_weight == metrics.carcass_weight
    IN  IF carcass_weight > 0
        THEN [lean_percent |-> RoundPercent(metrics.lean_mass, carcass_weight),
              fat_percent |-> RoundPercent(metrics.fat_mass, carcass_weight),
              bone_percent |-> 1000 - RoundPercent(metrics.lean_mass + metrics.fat_mass,
                                                   carcass_weight)]
        ELSE [lean_percent |-> 0, fat_percent |-> 0, bone_percent |-> 0]

\* backend.py:224-232 and the rounding at 247-249.
CarcassDetails(metrics) ==
    LET carcass_weight == metrics.carcass_weight
        total_mass == metrics.lean_mass + metrics.fat_mass
    IN  IF carcass_weight > 0
        THEN [lean_percent |-> RoundPercent(metrics.lean_mass, carcass_weight),
              fat_percent |-> RoundPercent(metrics.fat_mass, carcass_weight),
              bone_percent |-> IF total_mass > carcass_weight THEN 0
                               ELSE RoundPercent(carcass_weight - total_mass,
                                                 carcass_weight)]
        ELSE [lean_percent |-> 0, fat_percent |-> 0, bone_percent |-> 0]

\* ------------------------------------------------------- the /predict route
Reqs == 1..MaxReqs

\* round(random.uniform(40.0, 70.0), 2): the ends and a value between.
SimWeights == {4000, 5500, 7000}

\* What can go wrong in one request: nothing; Image.open raises (the upload
\* is no image); preprocess_image raises (the image cannot be decoded); the
\* forward pass inside predict_metrics raises.
Faults == {"none", "open", "preprocess", "forward"}

NoCarcass == [lean_percent |-> 0, fat_percent |-> 0, bone_percent |-> 0]

\* A slot with no request.  The fields of an answered request: kind is
\* "simulation", "report", "error" (the JSONResponse of backend.py:260) or
\* "unhandled" (an exception left the handler); ran_preprocess, ran_model
\* (predict_metrics and the network in it), scaler_called and scaler_raised
\* record which calls the request made; fault records what went wrong in it
\* and after_error that it arrived when another request had been answered
\* with an error.
IdleReq ==
    [pc |-> "idle", after_error |-> FALSE, fault |-> "none", kind |-> "none",
     note |-> "",
     ran_preprocess |-> FALSE, ran_model |-> FALSE,
     scaler_called |-> FALSE, scaler_raised |-> FALSE, raw |-> <<>>,
     weight_kg |-> 0, status |-> "", metrics |-> EmptyResults, carcass |-> NoCarcass]

\* A simulated response that carries no note.
SimulatedNoNote(sim_weight) ==
    [IdleReq EXCEPT !.pc = "done", !.kind = "simulation",
                    !.weight_kg = sim_weight, !.status = DetermineStatus(sim_weight)]

\* backend.py:199-210
Simulated(sim_weight) ==
    [IdleReq EXCEPT !.pc = "done", !.kind = "simulation", !.note = "SIMULATION MODE",
                    !.weight_kg = sim_weight, !.status = DetermineStatus(sim_weight)]

\* Another request has been answered with an error.
AfterError == \E q \in Reqs : reqs[q].pc = "done" /\ reqs[q].kind = "error"

\* backend.py:212-260, from the return of file.read() on, on globals g.
Answer(g, after_error, fault, raw) ==
    LET q == [IdleReq EXCEPT !.pc = "done", !.after_error = after_error,
                             !.fault = fault] IN
    IF fault = "open" THEN [q EXCEPT !.kind = "unhandled"]
    ELSE IF fault = "preprocess"
         THEN [q EXCEPT !.kind = "error", !.ran_preprocess = TRUE]
    ELSE IF fault = "forward"
         THEN [q EXCEPT !.kind = "error", !.ran_preprocess = TRUE, !.ran_model = TRUE]
    ELSE LET pm == PredictMetrics(g, raw)
         IN  [q EXCEPT !.kind = "report",
                       !.ran_preprocess = TRUE, !.ran_model = TRUE, !.raw = raw,
                       !.scaler_called = pm.scaler_called,
                       !.scaler_raised = pm.scaler_raised,
                       !.metrics = pm.results,
                       !.weight_kg = pm.results.live_weight,
                       !.status = DetermineStatus(pm.results.live_weight),
                       !.carcass = CarcassDetails(pm.results)]

\* backend.py:197-212: a request arrives; the handler answers with a
\* simulated response, or goes on to await file.read().
PredictBegin(r) ==
    /\ ~startup
    /\ reqs[r].pc \in {"idle", "done"}
    /\ IF ~model_loaded
       THEN \E sim_weight \in SimWeights :
                reqs' = [reqs EXCEPT ![r] =
                            [Simulated(sim_weight) EXCEPT !.after_error = AfterError]]
       ELSE reqs' = [reqs EXCEPT ![r] =
                        [IdleReq EXCEPT !.pc = "reading", !.after_error = AfterError]]
    /\ UNCHANGED <<globals, startup, history, remapVars, helperVars, clientVars>>

\* A handler whose except branch marks the model as not loaded.
PredictResumeClearsFlag(r) ==
    /\ reqs[r].pc = "reading"
    /\ \E fault \in Faults :
         \E raw \in RawOutputs(OutFeatures(model[1])) :
            LET a == Answer(Globals(model, model_loaded, output_scaler, target_names),
                            reqs[r].after_error, fault, raw)
            IN  /\ reqs' = [reqs EXCEPT ![r] = a]
                /\ model_loaded' = (a.kind # "error" /\ model_loaded)
    /\ UNCHANGED <<model, output_scaler, target_names, startup, history, remapVars, helperVars, clientVars>>

\* A handler whose predict_metrics drops a scaler that raised.
PredictResumeDropsScaler(r) ==
    /\ reqs[r].pc = "reading"
    /\ \E fault \in Faults :
         \E raw \in RawOutputs(OutFeatures(model[1])) :
            LET a == Answer(Globals(model, model_loaded, output_scaler, target_names),
                            reqs[r].after_error, fault, raw)
            IN  /\ reqs' = [reqs EXCEPT ![r] = a]
                /\ output_scaler' = IF a.scaler_raised THEN "None" ELSE output_scaler
    /\ UNCHANGED <<model, model_loaded, target_names, startup, history, remapVars, helperVars, clientVars>>

\* backend.py:212-260: file.read() returns and the handler runs to its end.
PredictResume(r) ==
    /\ reqs[r].pc = "reading"
    /\ \E fault \in Faults :
         \E raw \in RawOutputs(OutFeatures(model[1])) :
            reqs' = [reqs EXCEPT ![r] =
                        Answer(Globals(model, model_loaded, output_scaler, target_names),
                               reqs[r].after_error, fault, raw)]
    /\ UNCHANGED <<globals, startup, history, remapVars, helperVars, clientVars>>

\* A startup hook that can run again once the server accepts requests.
LifespanRepeats ==
    /\ \E ck \in Checkpoints : LoadCall(ck)
    /\ startup' = FALSE
    /\ UNCHANGED <<reqs, remapVars, helperVars, clientVars>>

\* backend.py:113-122: the lifespan hook calls load_model once, before the
\* server accepts requests.
Lifespan ==
    /\ startup
    /\ startup' = FALSE
    /\ \E ck \in Checkpoints : LoadCall(ck)
    /\ UNCHANGED <<reqs, remapVars, helperVars, clientVars>>

\* A further call of load_model in the same process.
Reload ==
    /\ ~startup
    /\ \E ck \in Checkpoints : LoadCall(ck)
    /\ UNCHANGED <<startup, reqs, remapVars, helperVars, clientVars>>

\* --------------------------------------------------- the client (main.py)
\* The accounts that can be created.
Users == {"u1", "u2"}

\* main.py:177  {"logged_in": False, "data": None}
NoUser == [logged_in |-> FALSE, data |-> <<>>]

\* No on_file_picked handler is running.
IdlePick == [pc |-> "idle", uid |-> <<>>]

\* main.py:110-131  get_user_scans(user_id): the user's rows, newest first
\* (the table never holds more than the 10 rows of the LIMIT here).
GetUserScans(user_id) ==
    LET rows == SelectSeq(scans_table, LAMBDA row : row.user_id = user_id)
    IN  [i \in 1..Len(rows) |-> rows[Len(rows) + 1 - i]]

\* main.py:132-160  get_user_stats(user_id)["total_scans"]
GetUserStats(user_id) == Len(GetUserScans(user_id))

\* main.py:559-587: the view build_analyze builds for a session.
BuildAnalyze(cu) == IF cu.logged_in THEN "picker" ELSE "gate"

\* main.py:743-744: the view build_auth builds for a session.
BuildAuth(cu) == IF cu.logged_in THEN "profile" ELSE "form"

\* main.py:163-179 and 1029-1034: the client as main() leaves it.
ClientInit ==
    /\ current_user = NoUser
    /\ user_stats = 0
    /\ scan_history = <<>>
    /\ users_table = {}
    /\ scans_table = <<>>
    /\ analyze_view = BuildAnalyze(NoUser)
    /\ auth_view = BuildAuth(NoUser)
    /\ is_login_mode = TRUE
    /\ tab = 0
    /\ picker_open = FALSE
    /\ pick = IdlePick

\* main.py:991-1006 switch_tab(index), from the navigation bar.
SwitchTab(index) ==
    /\ tab' = index
    /\ UNCHANGED <<serverVars, current_user, user_stats, scan_history, users_table,
                   scans_table, analyze_view, auth_view, is_login_mode, picker_open,
                   pick>>

\* main.py:919-924 toggle_mode, from the form of the Account view.
ToggleMode ==
    /\ tab = 3 /\ auth_view = "form"
    /\ is_login_mode' = ~is_login_mode
    /\ UNCHANGED <<serverVars, current_user, user_stats, scan_history, users_table,
                   scans_table, analyze_view, auth_view, tab, picker_open, pick>>

\* main.py:859-883 handle_auth in sign-up mode, all fields filled in:
\* create_user adds the account unless it exists, and the form goes back to
\* sign-in mode.
SignUp(u) ==
    /\ tab = 3 /\ auth_view = "form" /\ ~is_login_mode
    /\ IF u \notin users_table
       THEN /\ users_table' = users_table \cup {u}
            /\ is_login_mode' = TRUE
       ELSE UNCHANGED <<users_table, is_login_mode>>
    /\ UNCHANGED <<serverVars, current_user, user_stats, scan_history, scans_table,
                   analyze_view, auth_view, tab, picker_open, pick>>

\* main.py:884-917 handle_auth in sign-in mode, for account u with the right
\* password or not: on success the session is set, refresh_user_data loads
\* the user's statistics and scans, the views are rebuilt, Home is shown.
SignIn(u, password_ok) ==
    /\ tab = 3 /\ auth_view = "form" /\ is_login_mode
    /\ IF password_ok /\ u \in users_table
       THEN LET cu == [logged_in |-> TRUE, data |-> <<u>>] IN
            /\ current_user' = cu
            /\ user_stats' = GetUserStats(u)
            /\ scan_history' = GetUserScans(u)
            /\ analyze_view' = BuildAnalyze(cu)
            /\ auth_view' = BuildAuth(cu)
            /\ tab' = 0
       ELSE UNCHANGED <<current_user, user_stats, scan_history, analyze_view,
                        auth_view, tab>>
    /\ UNCHANGED <<serverVars, users_table, scans_table, is_login_mode, picker_open,
                   pick>>

\* main.py:434-457 handle_logout, from the profile of the Account view.
HandleLogout ==
    /\ tab = 3 /\ auth_view = "profile"
    /\ current_user' = NoUser
    /\ user_stats' = 0
    /\ scan_history' = <<>>
    /\ analyze_view' = BuildAnalyze(NoUser)
    /\ auth_view' = BuildAuth(NoUser)
    /\ tab' = 0
    /\ UNCHANGED <<serverVars, users_table, scans_table, is_login_mode, picker_open,
                   pick>>

\* main.py:640 file_picker.pick_files, from the button of the image picker.
OpenPicker ==
    /\ tab = 1 /\ analyze_view = "picker" /\ ~picker_open
    /\ picker_open' = TRUE
    /\ UNCHANGED <<serverVars, current_user, user_stats, scan_history, users_table,
                   scans_table, analyze_view, auth_view, is_login_mode, tab, pick>>

\* main.py:268-278 on_file_picked up to the call of process_upload: the
\* dialog closes with a file chosen or without.
FilePicked(chosen) ==
    /\ picker_open /\ pick.pc = "idle"
    /\ Len(scans_table) < MaxScans
    /\ picker_open' = FALSE
    /\ pick' = IF chosen THEN [IdlePick EXCEPT !.pc = "uploading"] ELSE IdlePick
    /\ UNCHANGED <<serverVars, current_user, user_stats, scan_history, users_table,
                   scans_table, analyze_view, auth_view, is_login_mode, tab>>

\* main.py:278-298: process_upload returns; on success, with a user logged
\* in, save_scan_result is called with the id the session holds now.
UploadReturns(success) ==
    /\ pick.pc = "uploading"
    /\ pick' = IF success /\ current_user.logged_in
               THEN [pc |-> "saving", uid |-> current_user.data]
               ELSE IdlePick
    /\ UNCHANGED <<serverVars, current_user, user_stats, scan_history, users_table,
                   scans_table, analyze_view, auth_view, is_login_mode, tab,
                   picker_open>>

\* main.py:92-108, 297-306 and 332-336: the INSERT of save_scan_result is
\* committed (or fails), then refresh_user_data tests the session and calls
\* get_user_stats with the id the session holds now.  A row records the
\* session at the time it is written.
SaveReturns(saved) ==
    /\ pick.pc = "saving"
    /\ scans_table' = IF saved
                      THEN Append(scans_table,
                                  [user_id |-> pick.uid[1], by |-> current_user])
                      ELSE scans_table
    /\ pick' = IF current_user.logged_in
               THEN [pc |-> "stats", uid |-> current_user.data]
               ELSE IdlePick
    /\ UNCHANGED <<serverVars, current_user, user_stats, scan_history, users_table,
                   analyze_view, auth_view, is_login_mode, tab, picker_open>>

\* main.py:336-337: get_user_stats returns and user_stats is assigned; then
\* current_user["data"]["id"] is read again for get_user_scans, which raises
\* when data is None.
StatsReturns ==
    /\ pick.pc = "stats"
    /\ user_stats' = GetUserStats(pick.uid[1])
    /\ pick' = IF current_user.data # <<>>
               THEN [pc |-> "scans", uid |-> current_user.data]
               ELSE IdlePick
    /\ UNCHANGED <<serverVars, current_user, scan_history, users_table, scans_table,
                   analyze_view, auth_view, is_login_mode, tab, picker_open>>

\* main.py:337-340: get_user_scans returns and scan_history is assigned.
ScansReturns ==
    /\ pick.pc = "scans"
    /\ scan_history' = GetUserScans(pick.uid[1])
    /\ pick' = IdlePick
    /\ UNCHANGED <<serverVars, current_user, user_stats, users_table, scans_table,
                   analyze_view, auth_view, is_login_mode, tab, picker_open>>

Init ==
    /\ model = InitialGlobals.model
    /\ model_loaded = InitialGlobals.model_loaded
    /\ output_scaler = InitialGlobals.output_scaler
    /\ target_names = InitialGlobals.target_names
    /\ startup = TRUE
    /\ last_ret = <<>>
    /\ last_fresh = <<>>
    /\ last_nsd = <<>>
    /\ last_prebind = <<>>
    /\ bind_raised = FALSE
    /\ load_calls = 0
    /\ reqs = [r \in Reqs |-> IdleReq]
    /\ sd_in = <<>>
    /\ remapped = <<>>
    /\ arg = <<>>
    /\ result = <<>>
    /\ ClientInit

\* The server: the lifespan hook, then requests.
Next == Lifespan \/ \E r \in Reqs : PredictBegin(r) \/ PredictResume(r)
Spec == Init /\ [][Next]_vars

\* load_model called any number of times.
NextReload == Lifespan \/ Reload
SpecReload == Init /\ [][NextReload]_vars

\* ---------------------------------------------------- the key remapper alone
\* Parameter names the remapper is tried on: names under the backbone
\* namespace, names of the other branches, names the architecture uses, and
\* names that hold "cnn.", "tab_mlp" or "final_head" in other places.
KeyPool ==
    { <<"cnn", ".", "layer1">>,
      <<"layer1">>,
      <<"tab_mlp", ".", "x">>,
      <<"final_head", ".", "y">>,
      <<"cnn", ".", "tab_mlp", ".", "x">>,
      <<"cnn", ".", "final_head", ".", "y">>,
      <<"cnn", ".", "cnn", ".", "layer1">>,
      <<"cnn", ".", "layer1", ".", "cnn", ".", "x">>,
      <<"cnn", ".", "cnn", "cnn", ".", ".", "x">>,
      <<"cnn", "layer1">>,
      <<"x", ".", "cnn", ".", "y">>,
      <<"x", ".", "tab_mlp">>,
      <<"tab_mlp", "2", ".", "x">>,
      <<"layer1", ".", "x">> }

\* The mappings of at most MaxEntries entries over KeyPool; the i-th entry
\* holds the tensor numbered i.
InputDicts ==
    UNION { { [i \in 1..n |-> Entry(ks[i], Tensor(<<1>>, i))] :
                ks \in { f \in [1..n -> KeyPool] :
                           \A i, j \in 1..n : i # j => f[i] # f[j] } } :
            n \in 0..MaxEntries }

InitRemap ==
    /\ model = InitialGlobals.model
    /\ model_loaded = InitialGlobals.model_loaded
    /\ output_scaler = InitialGlobals.output_scaler
    /\ target_names = InitialGlobals.target_names
    /\ startup = TRUE
    /\ last_ret = <<>>
    /\ last_fresh = <<>>
    /\ last_nsd = <<>>
    /\ last_prebind = <<>>
    /\ bind_raised = FALSE
    /\ load_calls = 0
    /\ reqs = [r \in Reqs |-> IdleReq]
    /\ sd_in \in InputDicts
    /\ remapped = <<>>
    /\ arg = <<>>
    /\ result = <<>>
    /\ ClientInit

\* backend.py:78-86 run on sd_in.
RunRemap ==
    /\ remapped = <<>>
    /\ remapped' = <<RemapKeys(sd_in)>>
    /\ UNCHANGED <<globals, startup, history, reqs, sd_in, helperVars, clientVars>>

NextRemap == RunRemap
SpecRemap == InitRemap /\ [][NextRemap]_vars

\* ------------------------------------------------------ a pure helper alone
\* The process before startup, with the argument drawn from inputs.
InitHelper(inputs) ==
    /\ model = InitialGlobals.model
    /\ model_loaded = InitialGlobals.model_loaded
    /\ output_scaler = InitialGlobals.output_scaler
    /\ target_names = InitialGlobals.target_names
    /\ startup = TRUE
    /\ last_ret = <<>>
    /\ last_fresh = <<>>
    /\ last_nsd = <<>>
    /\ last_prebind = <<>>
    /\ bind_raised = FALSE
    /\ load_calls = 0
    /\ reqs = [r \in Reqs |-> IdleReq]
    /\ sd_in = <<>>
    /\ remapped = <<>>
    /\ arg \in inputs
    /\ result = <<>>
    /\ ClientInit

\* The helper returns value.
Returns(value) ==
    /\ result = <<>>
    /\ result' = <<value>>
    /\ UNCHANGED <<globals, startup, history, reqs, remapVars, arg, clientVars>>

\* Target names the classifier is tried on: the four of the trained model,
\* two of the defaults, and names that differ from them in case, in the
\* order of their words and in the words between "weight"/"lean" and "kg".
NamePool ==
    { WEIGHT_KG, LEAN_KG, FAT_KG, CARCASS_TOTAL_KG,
      <<"weight">>, <<"bone">>,
      <<"WEIGHT", "_", "KG">>,
      <<"kg", "_", "weight">>,
      <<"carcass", "_", "weight", "_", "kg">>,
      <<"lean", "_", "fat", "_", "kg">>,
      <<"Carcass">> }

\* Values of one prediction, in hundredths of a kilogram.
PredValues == {0 - 320, 2500, 5000}

SeqsUpTo(S, n) == UNION { [1..k -> S] : k \in 0..n }

\* (target_names, predictions) pairs: every short pair, and the trained
\* model's names and the default names with four predictions.
ClassifyInputs ==
    { [names |-> ns, predictions |-> ps] :
        ns \in SeqsUpTo(NamePool, MaxNames), ps \in SeqsUpTo(PredValues, MaxNames) }
    \cup
    { [names |-> ns, predictions |-> ps] :
        ns \in { <<WEIGHT_KG, LEAN_KG, FAT_KG, CARCASS_TOTAL_KG>>, DefaultTargetNames },
        ps \in { <<5000, 2000, 1000, 4000>>, <<0 - 320, 2000, 0 - 320, 4000>> } }

InitClassify == InitHelper(ClassifyInputs)

\* backend.py:159-177 run on arg.
RunClassify == Returns(Classify(arg.names, arg.predictions))

NextClassify == RunClassify
SpecClassify == InitClassify /\ [][NextClassify]_vars

\* Metrics the report is derived from: live weights on and beside every
\* status threshold, and lean, fat and carcass masses that divide evenly,
\* that do not, that exceed the carcass, and a carcass of zero.
MetricsInputs ==
    [live_weight : {0, 3999, 4000, 4499, 4500, 5499, 5500, 6499, 6500, 9000},
     lean_mass : {0, 1000, 2000, 3000},
     fat_mass : {0, 1000, 3000},
     carcass_weight : {0, 3000, 4000, 5000}]

InitReport == InitHelper(MetricsInputs)

\* backend.py:220-232 and 247-249 run on the metrics arg.
RunReport ==
    Returns([status |-> DetermineStatus(arg.live_weight),
             carcass |-> CarcassDetails(arg)])

NextReport == RunReport
SpecReport == InitReport /\ [][NextReport]_vars

\* The checkpoints that have a parameter mapping to resolve.
ResolveInputs == { ck \in Checkpoints : ck.kind \in {"dict", "module"} }

InitResolve == InitHelper(ResolveInputs)

\* backend.py:62-74 run on the checkpoint arg.
RunResolve == Returns(StateDictOf(arg))

NextResolve == RunResolve
SpecResolve == InitResolve /\ [][NextResolve]_vars

\* The client alone: its event handlers, each run in a thread of its own,
\* so that the steps of on_file_picked interleave with the other handlers.
NextClient ==
    \/ \E index \in 0..3 : SwitchTab(index)
    \/ ToggleMode
    \/ \E u \in Users : SignUp(u)
    \/ \E u \in Users, password_ok \in BOOLEAN : SignIn(u, password_ok)
    \/ HandleLogout
    \/ OpenPicker
    \/ \E chosen \in BOOLEAN : FilePicked(chosen)
    \/ \E success \in BOOLEAN : UploadReturns(success)
    \/ \E saved \in BOOLEAN : SaveReturns(saved)
    \/ StatsReturns
    \/ ScansReturns
SpecClient == Init /\ [][NextClient]_vars

\* =================================================================== claims
\* The module globals as one value.
CurrentGlobals == Globals(model, model_loaded, output_scaler, target_names)

\* C1 (as stated): after any sequence of load_model calls the globals are
\* those the last call alone produces, that is, those a fresh process holds
\* after loading the same checkpoint.
C1_LastLoadAloneDecides == last_fresh # <<>> => CurrentGlobals = last_fresh[1]

\* C2 (as stated): after a load_model call that failed (it returned False),
\* model_loaded is false, whatever calls preceded it.
C2_FailedLoadLeavesUnavailable == last_ret = <<FALSE>> => ~model_loaded

\* C3 (as stated): the value a load_model call returns equals model_loaded
\* as it stands right after the call.
C3_ReturnEqualsAvailability == last_ret # <<>> => last_ret[1] = model_loaded

\* C4: a request answered while model_loaded is false ran neither
\* preprocessing nor predict_metrics (and the network in it) and carries the
\* note "SIMULATION MODE"; a request answered while model_loaded is true is
\* not a simulated one.
C4_SimulationIffNotLoaded ==
    \A r \in Reqs :
        reqs[r].pc = "done" =>
            /\ (~model_loaded =>
                    /\ reqs[r].kind = "simulation"
                    /\ reqs[r].note = "SIMULATION MODE"
                    /\ ~reqs[r].ran_preprocess
                    /\ ~reqs[r].ran_model)
            /\ (model_loaded =>
                    /\ reqs[r].kind # "simulation"
                    /\ reqs[r].note # "SIMULATION MODE")

\* C4 witness: a simulated answer given while no model is loaded.
C4_Witness ==
    \E r \in Reqs : reqs[r].pc = "done" /\ reqs[r].kind = "simulation" /\ ~model_loaded

\* The step in which request r is answered with the error response.
FailsAt(r) == reqs[r].pc = "reading" /\ reqs'[r].pc = "done" /\ reqs'[r].kind = "error"

\* C5: a request in which preprocessing or predict_metrics raises is answered
\* with the error response, and that step changes neither the globals nor
\* any other request; a request that arrives after such an answer and in
\* which nothing goes wrong is answered with a report of real inference.
C5_FailureIsPerRequest ==
    /\ [](\A r \in Reqs :
            /\ (reqs[r].pc = "done" /\ reqs[r].fault \in {"preprocess", "forward"}
                    => reqs[r].kind = "error")
            /\ (reqs[r].pc = "done" /\ reqs[r].after_error /\ reqs[r].fault = "none"
                    => reqs[r].kind = "report" /\ reqs[r].ran_model))
    /\ [][\A r \in Reqs :
            FailsAt(r) =>
                /\ globals' = globals
                /\ \A q \in Reqs \ {r} : reqs'[q] = reqs[q]]_vars

\* C5 witness: a request answered with a report that arrived after another
\* was answered with an error.
C5_Witness ==
    \E r, q \in Reqs :
        /\ r # q
        /\ reqs[r].pc = "done" /\ reqs[r].kind = "error"
        /\ reqs[q].pc = "done" /\ reqs[q].after_error /\ reqs[q].kind = "report"

\* C6: a request in which the held scaler's inverse_transform raised is
\* answered with a report whose metrics are those classified from the raw
\* output of the network.
C6_ScalerFailureFallsBackToRaw ==
    \A r \in Reqs :
        reqs[r].pc = "done" /\ reqs[r].scaler_raised =>
            /\ reqs[r].kind = "report"
            /\ reqs[r].metrics = Classify(target_names, reqs[r].raw)

\* C6 witness: such a report, with a raw value that reaches a bucket.
C6_Witness ==
    \E r \in Reqs :
        /\ reqs[r].pc = "done" /\ reqs[r].scaler_raised
        /\ output_scaler = "badScaler"
        /\ reqs[r].kind = "report"
        /\ reqs[r].metrics.live_weight > 0

\* s without one leading occurrence of p.
StrRemoveLeading(s, p) ==
    IF StartsWith(s, p) THEN SubSeq(s, Len(p) + 1, Len(s)) ELSE s

\* The name C7 gives a kept entry: <<name>>, or <<>> for an entry it drops.
C7_Name(key) ==
    IF StartsWith(key, CNN_PREFIX) THEN <<StrRemoveLeading(key, CNN_PREFIX)>>
    ELSE IF StartsWith(key, TAB_MLP) \/ StartsWith(key, FINAL_HEAD) THEN <<>>
    ELSE <<key>>

\* C7 (as stated): every entry under "cnn." is kept under its name without
\* that leading prefix only, every entry under "tab_mlp" or "final_head" is
\* dropped, every other entry is kept under its own name; a kept entry has
\* its value (where no other entry is given the same name), and the result
\* holds nothing else.
C7_RemapByLeadingPrefix ==
    remapped # <<>> =>
        LET out == remapped[1] IN
        /\ \A i \in DOMAIN sd_in :
              C7_Name(sd_in[i].k) # <<>> =>
                  /\ C7_Name(sd_in[i].k)[1] \in DictKeys(out)
                  /\ ((\A j \in DOMAIN sd_in :
                          j # i => C7_Name(sd_in[j].k) # C7_Name(sd_in[i].k))
                        => DictGet(out, C7_Name(sd_in[i].k)[1]) = sd_in[i].v)
        /\ \A k \in DictKeys(out) : \E i \in DOMAIN sd_in : C7_Name(sd_in[i].k) = <<k>>

\* C8 (as stated): remapping the remapped mapping returns it unchanged.
C8_RemapIdempotent ==
    remapped # <<>> => DictItems(RemapKeys(remapped[1])) = DictItems(remapped[1])

\* No name under "cnn." turns, once its "cnn." occurrences are removed, into
\* a name that itself starts with "cnn.", "tab_mlp" or "final_head".
C8_StrippedNamesCanonical(sd) ==
    \A i \in DOMAIN sd :
        StartsWith(sd[i].k, CNN_PREFIX) =>
            LET stripped == StrRemove(sd[i].k, CNN_PREFIX) IN
            /\ ~StartsWith(stripped, CNN_PREFIX)
            /\ ~StartsWith(stripped, TAB_MLP)
            /\ ~StartsWith(stripped, FINAL_HEAD)

\* C8 (amended): for a mapping whose stripped names are canonical, remapping
\* the remapped mapping returns it unchanged.
C8_RemapIdempotentOnCanonical ==
    remapped # <<>> /\ C8_StrippedNamesCanonical(sd_in) =>
        DictItems(RemapKeys(remapped[1])) = DictItems(remapped[1])

\* C8 witness: such a mapping in which a prefix was stripped and an entry of
\* another branch dropped.
C8_Witness ==
    /\ remapped # <<>>
    /\ C8_StrippedNamesCanonical(sd_in)
    /\ \E i \in DOMAIN sd_in : StartsWith(sd_in[i].k, CNN_PREFIX)
    /\ \E i \in DOMAIN sd_in : StartsWith(sd_in[i].k, TAB_MLP)
    /\ Len(remapped[1]) = 1

\* C9: after a load_model call that returned True, the final layer has as
\* many outputs as target_names has names when it has at least one, and 4
\* when it has none; its input dimension is that of the reference network.
C9_HeadMatchesTargetCount ==
    last_ret = <<TRUE>> =>
        /\ (Len(target_names) >= 1 => OutFeatures(model[1]) = Len(target_names))
        /\ (Len(target_names) = 0 => OutFeatures(model[1]) = 4)
        /\ InFeatures(model[1]) = InFeatures(Resnet18)

\* C9 witness: a successful load with two target names and a two-output head.
C9_Witness ==
    /\ last_ret = <<TRUE>>
    /\ Len(target_names) = 2
    /\ OutFeatures(model[1]) = 2

\* C10: after a load_model call that returned True, every parameter of the
\* network is named as before the bind, has the shape it had before the
\* bind, and differs from its value before the bind only if the remapped
\* mapping names it with that shape; a parameter the mapping does not name
\* still has its initial value.
C10_BindFrame ==
    last_ret = <<TRUE>> =>
        LET before == last_prebind[1].params
            after == model[1].params
            nsd == last_nsd[1]
        IN  /\ DOMAIN after = DOMAIN before
            /\ \A p \in DOMAIN before :
                  /\ after[p].shape = before[p].shape
                  /\ (after[p] # before[p] =>
                          /\ p \in DictKeys(nsd)
                          /\ DictGet(nsd, p).shape = before[p].shape
                          /\ after[p].val = DictGet(nsd, p).val)
                  /\ (p \notin DictKeys(nsd) => after[p].val = "init")

\* C10 witness: a bind that changed one parameter, skipped one whose shape
\* differs, and was given a name the network does not have.
C10_Witness ==
    /\ last_ret = <<TRUE>>
    /\ \E p \in ParamNames : model[1].params[p] # last_prebind[1].params[p]
    /\ \E p \in ParamNames : SizeMismatch(last_prebind[1], last_nsd[1], p)
    /\ \E k \in DictKeys(last_nsd[1]) : k \notin ParamNames

\* C11: a load_model call that got as far as the bind returns True, with
\* model_loaded true and the network in inference mode, whatever the bind
\* did: parameters the mapping lacks, names the network lacks, shapes that
\* differ, load_state_dict raising.
C11_BindNeverAbortsLoad ==
    last_prebind # <<>> =>
        /\ last_ret = <<TRUE>>
        /\ model_loaded
        /\ model # <<>>
        /\ ~model[1].training

\* C11 witness: a load whose bind raised, with a parameter the mapping does
\* not name, that returned True with the network in inference mode.
C11_Witness ==
    /\ bind_raised
    /\ \E p \in ParamNames : p \notin DictKeys(last_nsd[1])
    /\ last_ret = <<TRUE>>
    /\ model_loaded
    /\ ~model[1].training

\* The four buckets of a report.
Buckets == {"live_weight", "lean_mass", "fat_mass", "carcass_weight"}

\* The indices of the target names that have a prediction.
Paired(a) == {i \in 1..Len(a.names) : i <= Len(a.predictions)}

\* A name with its letters in lower case.
Folded(name) == [i \in DOMAIN name |-> LowerToken(name[i])]

\* The word a name must hold, whatever else is asked of it, to go to bucket b.
RootWord(b) ==
    CASE b = "live_weight" -> <<"weight">>
      [] b = "lean_mass" -> <<"lean">>
      [] b = "fat_mass" -> <<"fat">>
      [] OTHER -> <<"carcass">>

\* C12: in what the classifier returns every bucket is non-negative; a
\* bucket holds 0 or a positive prediction of a name that has one (that is,
\* max(0, v) of a prediction v); it is 0 when no paired prediction is
\* positive and when no paired name holds the bucket's word; "weight_kg"
\* with the prediction -3.2 gives a live weight of 0.
C12_BucketsClampedAtZero ==
    result # <<>> =>
        LET out == result[1] IN
        /\ \A b \in Buckets :
              /\ out[b] >= 0
              /\ \/ out[b] = 0
                 \/ \E i \in Paired(arg) :
                       arg.predictions[i] > 0 /\ out[b] = arg.predictions[i]
              /\ ((\A i \in Paired(arg) : arg.predictions[i] <= 0) => out[b] = 0)
              /\ ((\A i \in Paired(arg) : ~Contains(Folded(arg.names[i]), RootWord(b)))
                    => out[b] = 0)
        /\ (arg.names = <<WEIGHT_KG>> /\ arg.predictions = <<0 - 320>>
              => out.live_weight = 0)

\* C12 witness: "weight_kg" with the prediction -3.2 classified, the live
\* weight being 0.
C12_Witness ==
    /\ result # <<>>
    /\ arg.names = <<WEIGHT_KG>>
    /\ arg.predictions = <<0 - 320>>
    /\ result[1].live_weight = 0

\* Every name the classifier is tried on.
NamesTried == NamePool \cup {DefaultTargetNames[i] : i \in DOMAIN DefaultTargetNames}

\* The bucket of a name when the words are looked for separately.
BucketByWords ==
    [name \in NamesTried |->
        LET n == Folded(name) IN
        IF Contains(n, <<"weight">>) /\ Contains(n, <<"kg">>) THEN "live_weight"
        ELSE IF Contains(n, <<"lean">>) /\ Contains(n, <<"kg">>) THEN "lean_mass"
        ELSE IF Contains(n, <<"fat">>) /\ Contains(n, <<"kg">>) THEN "fat_mass"
        ELSE IF Contains(n, <<"carcass">>) THEN "carcass_weight"
        ELSE "none"]

\* The bucket of a name when "weight_kg", "lean_kg" and "fat_kg" are looked
\* for as they are written.
BucketBySubstring ==
    [name \in NamesTried |->
        LET n == Folded(name) IN
        IF Contains(n, <<"weight", "_", "kg">>) THEN "live_weight"
        ELSE IF Contains(n, <<"lean", "_", "kg">>) THEN "lean_mass"
        ELSE IF Contains(n, <<"fat", "_", "kg">>) THEN "fat_mass"
        ELSE IF Contains(n, <<"carcass">>) THEN "carcass_weight"
        ELSE "none"]

\* What bucket b holds when names go to buckets as bucketOf says: the
\* clamped prediction of the last paired name that goes to b, or 0.
Expected(bucketOf, a, b) ==
    LET writers == {i \in Paired(a) : bucketOf[a.names[i]] = b}
    IN  IF writers = {} THEN 0
        ELSE LET last == CHOOSE i \in writers : \A j \in writers : j <= i
             IN  IF a.predictions[last] > 0 THEN a.predictions[last] ELSE 0

\* C13 (as stated): each name goes, in this order, to live_weight if it
\* holds "weight" and "kg", to lean_mass if it holds "lean" and "kg", to
\* fat_mass if it holds "fat" and "kg", to carcass_weight if it holds
\* "carcass", case-insensitively, and every bucket holds what its names give.
C13_ClassifiedByWords ==
    result # <<>> => \A b \in Buckets : result[1][b] = Expected(BucketByWords, arg, b)

\* C13 (amended): each name goes, in this order, to live_weight if it holds
\* "weight_kg", to lean_mass if it holds "lean_kg", to fat_mass if it holds
\* "fat_kg", to carcass_weight if it holds "carcass", case-insensitively,
\* and every bucket holds what its names give; the four names of the
\* trained model fill the four buckets from indices 0 to 3.
C13_ClassifiedBySubstring ==
    result # <<>> =>
        /\ \A b \in Buckets : result[1][b] = Expected(BucketBySubstring, arg, b)
        /\ (arg.names = <<WEIGHT_KG, LEAN_KG, FAT_KG, CARCASS_TOTAL_KG>>
            /\ arg.predictions = <<5000, 2000, 1000, 4000>>
              => result[1] = [live_weight |-> 5000, lean_mass |-> 2000,
                              fat_mass |-> 1000, carcass_weight |-> 4000])

\* C13 witness: a name that holds "weight" and "kg" but not "weight_kg",
\* with a positive prediction, classified: the live weight stays 0; and an
\* upper-case "WEIGHT_KG" classified to the live weight.
C13_Witness ==
    /\ result # <<>>
    /\ arg.names = << <<"kg", "_", "weight">>, <<"WEIGHT", "_", "KG">> >>
    /\ arg.predictions = <<5000, 2500>>
    /\ result[1].live_weight = 2500

\* C18: after a load_model call that returned True, a head parameter
\* (fc.weight, fc.bias) that the remapped mapping names with the shape of
\* the head of NumOutputs(target_names) outputs holds the mapping's value,
\* not the value of a fresh head.
C18_HeadBoundAfterResize ==
    last_ret = <<TRUE>> =>
        LET nsd == last_nsd[1]
            n == IF Len(target_names) >= 1 THEN Len(target_names) ELSE 4
            HeadShape(p) == IF p = FC_WEIGHT THEN <<n, 512>> ELSE <<n>>
        IN  \A p \in {FC_WEIGHT, FC_BIAS} :
                (p \in DictKeys(nsd) /\ DictGet(nsd, p).shape = HeadShape(p)) =>
                    /\ model[1].params[p].shape = HeadShape(p)
                    /\ model[1].params[p].val = DictGet(nsd, p).val
                    /\ model[1].params[p].val # "init"

\* C18 witness: a successful load whose mapping names both head parameters
\* with the shape of the two-output head, and the head holds their values.
C18_Witness ==
    /\ last_ret = <<TRUE>>
    /\ Len(target_names) = 2
    /\ \A p \in {FC_WEIGHT, FC_BIAS} :
          /\ p \in DictKeys(last_nsd[1])
          /\ model[1].params[p] = DictGet(last_nsd[1], p)

\* p is the percentage num / den * 100 to the nearest tenth, den > 0.
NearestTenth(p, num, den) ==
    /\ 2 * den * p - 2000 * num <= den
    /\ 2000 * num - 2 * den * p <= den

\* C14: for a carcass above 0 the lean and fat percentages are lean/carcass
\* and fat/carcass times 100, and the other percentage is 0 when lean + fat
\* exceeds the carcass and 100 less the two otherwise; for a carcass of 0
\* all three are 0; (lean, fat, carcass) = (20, 10, 40) gives 50, 25 and 25.
C14_CarcassComposition ==
    result # <<>> =>
        LET l == arg.lean_mass
            f == arg.fat_mass
            c == arg.carcass_weight
            d == result[1].carcass
        IN  /\ (c > 0 =>
                  /\ NearestTenth(d.lean_percent, l, c)
                  /\ NearestTenth(d.fat_percent, f, c)
                  /\ (l + f > c => d.bone_percent = 0)
                  /\ (l + f <= c => NearestTenth(d.bone_percent, c - l - f, c)))
            /\ (c <= 0 => d = [lean_percent |-> 0, fat_percent |-> 0,
                               bone_percent |-> 0])
            /\ (l = 2000 /\ f = 1000 /\ c = 4000
                  => d = [lean_percent |-> 500, fat_percent |-> 250,
                          bone_percent |-> 250])

\* C14 witness: lean and fat of 30 each with a carcass of 50 reported as
\* 60 %, 60 % and 0 %.
C14_Witness ==
    /\ result # <<>>
    /\ arg.lean_mass = 3000 /\ arg.fat_mass = 3000 /\ arg.carcass_weight = 5000
    /\ result[1].carcass = [lean_percent |-> 600, fat_percent |-> 600,
                            bone_percent |-> 0]

\* C15: the status is "Underweight" below 40 kg, "Low" from 40 to below 45,
\* "Healthy" from 45 to below 55, "Good" from 55 to below 65 and
\* "Excellent" from 65; each threshold belongs to the band above it.
C15_StatusBands ==
    result # <<>> =>
        LET w == arg.live_weight
            s == result[1].status
        IN  /\ (s = "Underweight" <=> w < 4000)
            /\ (s = "Low" <=> 4000 <= w /\ w < 4500)
            /\ (s = "Healthy" <=> 4500 <= w /\ w < 5500)
            /\ (s = "Good" <=> 5500 <= w /\ w < 6500)
            /\ (s = "Excellent" <=> 6500 <= w)

\* C15 witness: a live weight of exactly 65 kg reported as "Excellent".
C15_Witness ==
    /\ result # <<>>
    /\ arg.live_weight = 6500
    /\ result[1].status = "Excellent"

\* C16: a step of a /predict request leaves model, model_loaded,
\* output_scaler and target_names as they are, and once startup is over no
\* step changes them, however the requests interleave.
C16_RequestsWriteNoGlobals ==
    [][((\E r \in Reqs : reqs'[r] # reqs[r]) \/ ~startup) => UNCHANGED globals]_vars

\* C16 witness: a request answered with a report, its scaler having raised,
\* while another request is still reading its upload.
C16_Witness ==
    \E r, q \in Reqs :
        /\ r # q
        /\ reqs[r].pc = "done" /\ reqs[r].kind = "report" /\ reqs[r].scaler_raised
        /\ reqs[q].pc = "reading"

\* C17: load_model is called at most once; it has been called exactly once
\* as soon as startup is over; a request is taken up only after that one
\* call has returned.
C17_LoadOnceBeforeRequests ==
    /\ load_calls <= 1
    /\ (startup <=> load_calls = 0)
    /\ (load_calls = 1 <=> last_ret # <<>>)
    /\ \A r \in Reqs : reqs[r].pc # "idle" => ~startup /\ load_calls = 1

\* C17 witness: a request answered by the model after the one load.
C17_Witness ==
    /\ load_calls = 1
    /\ \E r \in Reqs : reqs[r].pc = "done" /\ reqs[r].ran_model

\* The name the remapper keeps an entry under, if it keeps it.
RemappedName(key) ==
    IF StartsWith(key, CNN_PREFIX) THEN <<StrRemove(key, CNN_PREFIX)>>
    ELSE IF StartsWith(key, TAB_MLP) \/ StartsWith(key, FINAL_HEAD) THEN <<>>
    ELSE <<key>>

\* C19: the remapped mapping holds each name exactly once, and under a name
\* that several source entries are remapped to it holds the value of the
\* one that comes last in the source.
C19_LaterEntryWins ==
    remapped # <<>> =>
        LET out == remapped[1] IN
        \A k \in DictKeys(out) :
            LET from == {i \in DOMAIN sd_in : RemappedName(sd_in[i].k) = <<k>>} IN
            /\ Cardinality({i \in DOMAIN out : out[i].k = k}) = 1
            /\ from # {}
            /\ \A i \in from : (\A j \in from : j <= i) => DictGet(out, k) = sd_in[i].v

\* C19 witness: "cnn.layer1" followed by "layer1" remapped to one entry
\* that holds the value of the second.
C19_Witness ==
    /\ remapped # <<>>
    /\ Len(sd_in) = 2
    /\ sd_in[1].k = CNN_PREFIX \o <<"layer1">>
    /\ sd_in[2].k = <<"layer1">>
    /\ remapped[1] = <<Entry(<<"layer1">>, sd_in[2].v)>>

\* C20 (as stated): for a container the mapping resolved is the value under
\* 'state_dict' if that field is present, else the value under
\* 'model_state_dict' if that field is present, else the container; for a
\* saved module it is the module's own mapping.
C20_PresenceDecides ==
    result # <<>> =>
        result[1] = IF arg.kind = "module" THEN Mapping(arg.params)
                    ELSE IF arg.has_state_dict THEN arg.state_dict
                    ELSE IF arg.has_model_state_dict THEN arg.model_state_dict
                    ELSE Mapping(ContainerItems(arg))

\* A field that is present with a value Python takes as true.
Usable(present, value) == present /\ (~value.ok \/ Len(value.items) > 0)

\* C20 (amended): for a container the mapping resolved is the value under
\* 'state_dict' if that field is present with a true value (not an empty
\* mapping), else the value under 'model_state_dict' if that field is
\* present with a true value, else the container; for a saved module it is
\* the module's own mapping.
C20_TruthDecides ==
    result # <<>> =>
        result[1] = IF arg.kind = "module" THEN Mapping(arg.params)
                    ELSE IF Usable(arg.has_state_dict, arg.state_dict)
                         THEN arg.state_dict
                    ELSE IF Usable(arg.has_model_state_dict, arg.model_state_dict)
                         THEN arg.model_state_dict
                    ELSE Mapping(ContainerItems(arg))

\* C20 witness: a container with an empty mapping under 'state_dict' and a
\* mapping under 'model_state_dict' resolved to the latter.
C20_Witness ==
    /\ result # <<>>
    /\ arg.kind = "dict"
    /\ arg.has_state_dict /\ arg.state_dict = Mapping(<<>>)
    /\ arg.has_model_state_dict /\ arg.model_state_dict = Mapping(OtherDict)
    /\ result[1] = Mapping(OtherDict)

\* C21 (as stated): after a load_model call that returned True the held
\* target names are as many as the outputs of the network's final layer.
C21_NamesAsManyAsOutputs ==
    last_ret = <<TRUE>> => Len(target_names) = OutFeatures(model[1])

\* C22 (as stated): after a load_model call that returned True, an
\* inference calls the scaler's inverse transform exactly when the
\* checkpoint of that call supplied a scaler, that is, when a fresh process
\* that loads the same checkpoint holds one.
C22_ScalerOfLastCheckpoint ==
    last_ret = <<TRUE>> =>
        \A raw \in RawOutputs(OutFeatures(model[1])) :
            PredictMetrics(CurrentGlobals, raw).scaler_called
                <=> last_fresh[1].output_scaler # "None"

\* What the categories leave of a name list: the paired names that hold the
\* words of some category.
Kept(a) == {i \in Paired(a) : BucketByWords[a.names[i]] # "none"}

\* C23: a name that has no prediction or that belongs to no category gives
\* no bucket its value: every bucket holds 0 or the positive prediction of
\* a name that has one and belongs to a category, the result has the four
\* buckets and nothing else, and when every name is of the first kind all
\* four are 0.
C23_DroppedNamesFillNothing ==
    result # <<>> =>
        LET out == result[1] IN
        /\ DOMAIN out = Buckets
        /\ \A b \in Buckets :
              \/ out[b] = 0
              \/ \E i \in Kept(arg) :
                    /\ arg.predictions[i] > 0
                    /\ out[b] = arg.predictions[i]
                    /\ Contains(Folded(arg.names[i]), RootWord(b))
        /\ (Kept(arg) = {} => out = EmptyResults)

\* C23 witness: "bone" with a positive prediction and "weight_kg" with
\* none classified: every bucket is 0.
C23_Witness ==
    /\ result # <<>>
    /\ arg.names = << <<"bone">>, WEIGHT_KG >>
    /\ arg.predictions = <<5000>>
    /\ result[1] = EmptyResults

\* C24 (as stated): whenever model_loaded is true the held network is in
\* inference mode and has a head of as many outputs as the held target
\* names ask for; it is never the network as constructed, with its head of
\* 1000 outputs, unbound and in training mode.
C24_LoadedModelIsComplete ==
    model_loaded =>
        /\ model # <<>>
        /\ ~model[1].training
        /\ OutFeatures(model[1]) =
              (IF Len(target_names) >= 1 THEN Len(target_names) ELSE 4)
        /\ model[1] # Resnet18

\* C25: under the default target names every report of a real inference
\* has the four metrics 0, the status "Underweight" and the three
\* percentages 0, whatever the network returned.
C25_DefaultNamesReportZeros ==
    \A r \in Reqs :
        (reqs[r].pc = "done" /\ reqs[r].kind = "report"
         /\ target_names = << <<"weight">>, <<"lean">>, <<"fat">>, <<"bone">> >>) =>
            /\ \A b \in Buckets : reqs[r].metrics[b] = 0
            /\ reqs[r].weight_kg = 0
            /\ reqs[r].status = "Underweight"
            /\ reqs[r].carcass = [lean_percent |-> 0, fat_percent |-> 0,
                                  bone_percent |-> 0]

\* C25 witness: a real inference under the default names whose network
\* returned positive outputs, reported as "Underweight".
C25_Witness ==
    \E r \in Reqs :
        /\ reqs[r].pc = "done" /\ reqs[r].kind = "report"
        /\ target_names = DefaultTargetNames
        /\ reqs[r].raw # <<>> /\ reqs[r].raw[1] > 0
        /\ reqs[r].status = "Underweight"

\* C26 (as stated): every row of scan_history was written while a user was
\* logged in and under that user's id; and while no user is logged in the
\* session holds no user data (no user record, statistics of zero, no
\* scans in memory) and the Analyze view shows the sign-in gate.
C26_ScansBelongToSession ==
    /\ \A i \in DOMAIN scans_table :
          /\ scans_table[i].by.logged_in
          /\ scans_table[i].by.data = <<scans_table[i].user_id>>
    /\ (~current_user.logged_in =>
          /\ current_user.data = <<>>
          /\ user_stats = 0
          /\ scan_history = <<>>
          /\ analyze_view = "gate")

====
